---- MODULE Spec2Model ----
(***************************************************************************)
(* A model of the GDP / life-expectancy pipeline: DataLoader,              *)
(* DataTransformer (melt, clean_gdp_cell, merge), Analyzer (year filter,   *)
(* Pearson, regressions, paired t-test) and the order in which main()      *)
(* calls them and the Visualizer.                                          *)
(*                                                                         *)
(* Strings are sequences of one-character strings.  A float is a record    *)
(* [kind, m, e]: kind "num" is the exact decimal m * 10^e (normalised so   *)
(* that m is not a multiple of 10, zero being m = 0, e = 0), kind "inf"    *)
(* is +/- infinity (m = 1 or -1) and kind "nan" is NaN, pandas' missing    *)
(* value.  Binary rounding of doubles is not modelled; the exponents that  *)
(* the bounded strings can spell stay far inside the range of a double,    *)
(* so overflow to infinity does not arise from parsing.                    *)
(***************************************************************************)
EXTENDS Integers, Sequences, FiniteSets, TLC

VARIABLES
    raw_cell,          \* clean_gdp_cell: the raw cell passed
    cleaned,           \* clean_gdp_cell: what the call gave
    life_raw,          \* main: the wide life-expectancy table
    gdp_raw,           \* main: the wide GDP table
    life_long,         \* main: melt_life_expectancy's result
    gdp_long,          \* main: melt_gdp_per_capita's result
    merged_df,         \* main: merge_datasets(life_long, gdp_long)
    merged_swapped,    \* merge_datasets(gdp_long, life_long)
    df_2020_filtered,  \* main: filter_2020_data(merged_df)
    refiltered,        \* filter_2020_data(df_2020_filtered)
    pearson,           \* main: (pearson_r, pearson_p)
    model_log,         \* main: regression_log_gdp's model
    cz_df,             \* main: trend_czech's frame
    trend_model,       \* main: trend_czech's model
    ttest,             \* main: (t_stat, p_val)
    files,             \* the chart files written under results/
    pc,                \* the next call of main, "done", "failed" or "unit"
    raised,            \* the exception that ended the last call, or "none"
    calls              \* the operations called so far, in order

vars == <<raw_cell, cleaned, life_raw, gdp_raw, life_long, gdp_long, merged_df,
          merged_swapped, df_2020_filtered, refiltered, pearson, model_log,
          cz_df, trend_model, ttest, files, pc, raised, calls>>

(***************************************************************************)
(* Bounds of the model.                                                    *)
(***************************************************************************)
\* longest raw GDP cell string explored
MaxLen == 4

(***************************************************************************)
(* Floats.                                                                 *)
(***************************************************************************)
RECURSIVE Norm(_, _)
\* the normal form of m * 10^e
Norm(m, e) ==
    IF m = 0 THEN [kind |-> "num", m |-> 0, e |-> 0]
    ELSE IF m % 10 = 0 THEN Norm(m \div 10, e + 1)
    ELSE [kind |-> "num", m |-> m, e |-> e]

Num(n) == Norm(n, 0)

NaN == [kind |-> "nan", m |-> 0, e |-> 0]

PosInf == [kind |-> "inf", m |-> 1, e |-> 0]

NegInf == [kind |-> "inf", m |-> -1, e |-> 0]

\* the exception float() raises on a string it cannot parse
ValueError == [kind |-> "ValueError", m |-> 0, e |-> 0]

\* the absent cell: None / NaN as read_csv delivers an empty field
NULL == [kind |-> "null", s |-> <<>>]

\* a raw cell holding the string s
Str(s) == [kind |-> "str", s |-> s]

\* pd.isna(val) on a raw cell
IsNaCell(val) == val.kind = "null"

IsFloat(v) == v.kind \in {"num", "inf", "nan"}

\* pd.isna / dropna: a float is missing iff it is NaN
IsMissing(v) == v.kind = "nan"

RECURSIVE Pow10(_)
Pow10(n) == IF n <= 0 THEN 1 ELSE 10 * Pow10(n - 1)

\* a < b on floats; any comparison with NaN is False
FLess(a, b) ==
    IF a.kind = "nan" \/ b.kind = "nan" THEN FALSE
    ELSE IF a.kind = "inf" THEN a.m < 0 /\ ~(b.kind = "inf" /\ b.m < 0)
    ELSE IF b.kind = "inf" THEN b.m > 0
    ELSE LET lo == IF a.e < b.e THEN a.e ELSE b.e
         IN  a.m * Pow10(a.e - lo) < b.m * Pow10(b.e - lo)

\* the scaling with a factor of 100 in place of 1000
Times1000_AsHundred(v) ==
    IF v.kind = "num" THEN Norm(v.m, v.e + 2) ELSE v

\* x * 1000.0
Times1000(v) ==
    IF v.kind = "num" THEN Norm(v.m, v.e + 3) ELSE v

(***************************************************************************)
(* Strings and float().                                                    *)
(***************************************************************************)
Digits == {"0", "1", "2", "3", "4", "5", "6", "7", "8", "9"}

DigitVal(c) ==
    CASE c = "0" -> 0 [] c = "1" -> 1 [] c = "2" -> 2 [] c = "3" -> 3
      [] c = "4" -> 4 [] c = "5" -> 5 [] c = "6" -> 6 [] c = "7" -> 7
      [] c = "8" -> 8 [] c = "9" -> 9

\* the characters str.strip() and float() treat as whitespace
Whitespace == {" "}

RECURSIVE LStrip(_)
LStrip(s) ==
    IF s # <<>> /\ Head(s) \in Whitespace THEN LStrip(Tail(s)) ELSE s

RECURSIVE RStrip(_)
RStrip(s) ==
    IF s # <<>> /\ s[Len(s)] \in Whitespace
    THEN RStrip(SubSeq(s, 1, Len(s) - 1)) ELSE s

\* str.strip()
Strip(s) == RStrip(LStrip(s))

\* s.replace(",", "")
RemoveCommas(s) == SelectSeq(s, LAMBDA c : c # ",")

\* s.endswith(("k", "K"))
EndsWithK(s) == s # <<>> /\ s[Len(s)] \in {"k", "K"}

\* s[:-1]
DropLast(s) == SubSeq(s, 1, Len(s) - 1)

\* the position of the first character of s that lies in set, 0 if none
FirstIn(s, set) ==
    IF \E i \in 1..Len(s) : s[i] \in set
    THEN CHOOSE i \in 1..Len(s) :
            s[i] \in set /\ \A j \in 1..(i - 1) : s[j] \notin set
    ELSE 0

\* digit (["_"] digit)* : float()'s digit groups
IsDigitPart(s) ==
    /\ s # <<>>
    /\ \A i \in 1..Len(s) : s[i] \in Digits \cup {"_"}
    /\ s[1] \in Digits /\ s[Len(s)] \in Digits
    /\ \A i \in 1..(Len(s) - 1) : ~(s[i] = "_" /\ s[i + 1] = "_")

RECURSIVE DigitsToInt(_)
\* the value of a digit part, underscores skipped
DigitsToInt(s) ==
    IF s = <<>> THEN 0
    ELSE IF s[Len(s)] = "_" THEN DigitsToInt(DropLast(s))
    ELSE 10 * DigitsToInt(DropLast(s)) + DigitVal(s[Len(s)])

\* the number of digits of a digit part
NDigits(s) == Len(SelectSeq(s, LAMBDA c : c \in Digits))

Lower(c) ==
    CASE c = "I" -> "i" [] c = "N" -> "n" [] c = "F" -> "f" [] c = "A" -> "a"
      [] c = "T" -> "t" [] c = "Y" -> "y" [] OTHER -> c

LowerStr(s) == [i \in 1..Len(s) |-> Lower(s[i])]

\* float() on an unsigned, stripped, non-empty body that is not inf / nan
ParseNumber(body, neg) ==
    LET epos  == FirstIn(body, {"e", "E"})
        mant  == IF epos = 0 THEN body ELSE SubSeq(body, 1, epos - 1)
        expo  == IF epos = 0 THEN <<>> ELSE SubSeq(body, epos + 1, Len(body))
        eneg  == expo # <<>> /\ expo[1] = "-"
        edig  == IF expo # <<>> /\ expo[1] \in {"-", "+"} THEN Tail(expo) ELSE expo
        dpos  == FirstIn(mant, {"."})
        ip    == IF dpos = 0 THEN mant ELSE SubSeq(mant, 1, dpos - 1)
        fp    == IF dpos = 0 THEN <<>> ELSE SubSeq(mant, dpos + 1, Len(mant))
        mantOk == IF dpos = 0 THEN IsDigitPart(ip)
                  ELSE /\ ip = <<>> \/ IsDigitPart(ip)
                       /\ fp = <<>> \/ IsDigitPart(fp)
                       /\ ~(ip = <<>> /\ fp = <<>>)
        expOk == epos = 0 \/ IsDigitPart(edig)
        ev    == IF epos = 0 THEN 0
                 ELSE IF eneg THEN 0 - DigitsToInt(edig) ELSE DigitsToInt(edig)
        mag   == DigitsToInt(ip) * Pow10(NDigits(fp)) + DigitsToInt(fp)
    IN  IF mantOk /\ expOk
        THEN Norm(IF neg THEN 0 - mag ELSE mag, ev - NDigits(fp))
        ELSE ValueError

\* float(s): the parsed float, or ValueError
PyFloat(s) ==
    LET t    == Strip(s)
        neg  == t # <<>> /\ t[1] = "-"
        body == IF t # <<>> /\ t[1] \in {"-", "+"} THEN Tail(t) ELSE t
        low  == LowerStr(body)
    IN  IF body = <<>> THEN ValueError
        ELSE IF low \in {<<"i", "n", "f">>,
                         <<"i", "n", "f", "i", "n", "i", "t", "y">>}
             THEN (IF neg THEN NegInf ELSE PosInf)
        ELSE IF low = <<"n", "a", "n">> THEN NaN
        ELSE ParseNumber(body, neg)

(***************************************************************************)
(* DataTransformer.clean_gdp_cell                                          *)
(***************************************************************************)
\* the k-suffix branch without its except clause: the ValueError leaves
TryFloatTimes1000_Uncaught(num_str) == Times1000(PyFloat(num_str))

\* try: return float(num_str) * 1000.0  except ValueError: return np.nan
TryFloatTimes1000(num_str) ==
    LET r == PyFloat(num_str)
    IN  IF r = ValueError THEN NaN ELSE Times1000(r)

\* try: return float(num_str)  except ValueError: return np.nan
TryFloat(num_str) ==
    LET r == PyFloat(num_str)
    IN  IF r = ValueError THEN NaN ELSE r

clean_gdp_cell(val) ==
    IF IsNaCell(val) THEN NaN
    ELSE LET s == Strip(val.s)
         IN  IF EndsWithK(s)
             THEN TryFloatTimes1000(Strip(RemoveCommas(DropLast(s))))
             ELSE TryFloat(Strip(RemoveCommas(s)))

(***************************************************************************)
(* Tables.  A wide table (a raw CSV as read_csv returns it) is             *)
(* [countries, labels, cells]: one row per entry of countries, one year    *)
(* column per entry of labels, cells[i][j] the cell of row i, column j.    *)
(* A DataFrame is [columns, rows]; each row is a record that carries its   *)
(* index label idx and one field per column.                               *)
(***************************************************************************)
\* a variable that holds no object yet
Unset == [kind |-> "unset"]

NRows(w) == Len(w.countries)

NCols(w) == Len(w.labels)

\* int(label): the integer a column label spells, or ValueError
PyInt(label) ==
    LET t    == Strip(label)
        neg  == t # <<>> /\ t[1] = "-"
        body == IF t # <<>> /\ t[1] \in {"-", "+"} THEN Tail(t) ELSE t
    IN  IF IsDigitPart(body)
        THEN Norm(IF neg THEN 0 - DigitsToInt(body) ELSE DigitsToInt(body), 0)
        ELSE ValueError

\* the integer value of an integral float
IntOf(v) == v.m * Pow10(v.e)

\* Series.astype(int) on the melted "year" column: raises on the first
\* label that is no integer literal (an empty column raises nothing)
YearsCoercible(w) ==
    NRows(w) = 0 \/ \A j \in 1..NCols(w) : PyInt(w.labels[j]) # ValueError

\* DataFrame.melt(id_vars="country"): one row per (value column, table row),
\* value columns in their order and, within a column, rows in their order;
\* a fresh RangeIndex.  The year is still the column label.
MeltCell(w, k) ==
    LET i == ((k - 1) % NRows(w)) + 1
        j == ((k - 1) \div NRows(w)) + 1
    IN  [idx |-> k - 1, country |-> w.countries[i],
         label |-> w.labels[j], value |-> w.cells[i][j]]

Melt(w) == [k \in 1..(NRows(w) * NCols(w)) |-> MeltCell(w, k)]

\* DataFrame.dropna(subset=[life_expectancy]) / the gdp_per_capita analogue
DropNaLife(rows) == SelectSeq(rows, LAMBDA r : ~IsMissing(r.life_expectancy))

\* the GDP melt without its dropna
DropNaGdp_KeepAll(rows) == rows

DropNaGdp(rows) == SelectSeq(rows, LAMBDA r : ~IsMissing(r.gdp_per_capita))

LifeColumns == <<"country", "year", "life_expectancy">>

GdpColumns == <<"country", "year", "gdp_per_capita">>

MergedColumns == <<"country", "year", "life_expectancy", "gdp_per_capita">>

\* the outcome of a call: a returned value, or a raised exception
Return(v) == [kind |-> "return", value |-> v]

Raise(exc) == [kind |-> "raise", value |-> exc]

\* DataTransformer.melt_life_expectancy
melt_life_expectancy(life_df) ==
    IF ~YearsCoercible(life_df) THEN Raise("ValueError")
    ELSE LET m    == Melt(life_df)
             long == [k \in 1..Len(m) |->
                        [idx |-> m[k].idx, country |-> m[k].country,
                         year |-> IntOf(PyInt(m[k].label)),
                         life_expectancy |-> m[k].value]]
         IN  Return([columns |-> LifeColumns, rows |-> DropNaLife(long)])

\* DataTransformer.melt_gdp_per_capita
melt_gdp_per_capita(gdp_df) ==
    IF ~YearsCoercible(gdp_df) THEN Raise("ValueError")
    ELSE LET m    == Melt(gdp_df)
             long == [k \in 1..Len(m) |->
                        [idx |-> m[k].idx, country |-> m[k].country,
                         year |-> IntOf(PyInt(m[k].label)),
                         gdp_per_capita |-> clean_gdp_cell(m[k].value)]]
         IN  Return([columns |-> GdpColumns, rows |-> DropNaGdp(long)])

\* the non-key columns of the right frame, appended to the left frame's
RightValueColumns(cols) == SelectSeq(cols, LAMBDA c : c \notin {"country", "year"})

\* a merged row from a life row and a GDP row, whichever side is left
JoinRow(a, b) ==
    LET lf == IF "life_expectancy" \in DOMAIN a THEN a ELSE b
        gd == IF "life_expectancy" \in DOMAIN a THEN b ELSE a
    IN  [idx |-> 0, country |-> a.country, year |-> a.year,
         life_expectancy |-> lf.life_expectancy,
         gdp_per_capita |-> gd.gdp_per_capita]

\* the matches of a how="left" merge: an unmatched left row is kept
Matches_LeftJoin(l, right) ==
    LET hit == SelectSeq(right, LAMBDA r : r.country = l.country /\ r.year = l.year)
    IN  IF hit = <<>>
        THEN <<[idx |-> 0, country |-> l.country, year |-> l.year,
                life_expectancy |-> IF "life_expectancy" \in DOMAIN l
                                    THEN l.life_expectancy ELSE NaN,
                gdp_per_capita |-> IF "gdp_per_capita" \in DOMAIN l
                                   THEN l.gdp_per_capita ELSE NaN]>>
        ELSE [k \in 1..Len(hit) |-> JoinRow(l, hit[k])]

\* the right rows whose key equals the key of left row l, in right order,
\* each joined to l (index still to be assigned)
Matches(l, right) ==
    LET hit == SelectSeq(right, LAMBDA r : r.country = l.country /\ r.year = l.year)
    IN  [k \in 1..Len(hit) |-> JoinRow(l, hit[k])]

RECURSIVE InnerJoin(_, _)
\* pd.merge(on=["country", "year"], how="inner"): for every left row in
\* order, its matches
InnerJoin(left, right) ==
    IF left = <<>> THEN <<>>
    ELSE Matches(Head(left), right) \o InnerJoin(Tail(left), right)

\* the result of a merge carries a fresh RangeIndex
Reindex(rows) == [k \in 1..Len(rows) |-> [rows[k] EXCEPT !.idx = k - 1]]

\* DataTransformer.merge_datasets
merge_datasets(left, right) ==
    [columns |-> left.columns \o RightValueColumns(right.columns),
     rows    |-> Reindex(InnerJoin(left.rows, right.rows))]

\* the (country, year) keys of a frame
Keys(df) == {<<df.rows[k].country, df.rows[k].year>> : k \in 1..Len(df.rows)}

(***************************************************************************)
(* Analyzer                                                                *)
(***************************************************************************)
\* df["year"] == 2020
FilterYear == 2020

\* df_2020["life_expectancy"] > 10
LoBound == 10

\* df_2020["gdp_per_capita"] < 1e6
HiGdpBound == 1000000

\* df["year"].between(2000, 2020)
YearLo == 2000

YearHi == 2020

TargetCountry == "Czech Republic"

\* the filter with the GDP bound as its docstring words it: only a GDP
\* above 1e6 is dropped
filter_2020_data_Inclusive(df) ==
    LET y  == SelectSeq(df.rows, LAMBDA r : r.year = FilterYear)
        p  == SelectSeq(y, LAMBDA r : /\ FLess(Num(0), r.gdp_per_capita)
                                      /\ FLess(Num(0), r.life_expectancy))
        lo == SelectSeq(p, LAMBDA r : FLess(Num(LoBound), r.life_expectancy))
        hi == SelectSeq(lo, LAMBDA r : ~FLess(Num(HiGdpBound), r.gdp_per_capita))
    IN  [columns |-> df.columns, rows |-> hi]

\* the filter with an off-by-one slice that loses the first selected row
filter_2020_data_SkipFirst(df) ==
    LET y  == SelectSeq(df.rows, LAMBDA r : r.year = FilterYear)
        p  == SelectSeq(y, LAMBDA r : /\ FLess(Num(0), r.gdp_per_capita)
                                      /\ FLess(Num(0), r.life_expectancy))
        lo == SelectSeq(p, LAMBDA r : FLess(Num(LoBound), r.life_expectancy))
        hi == SelectSeq(lo, LAMBDA r : FLess(r.gdp_per_capita, Num(HiGdpBound)))
    IN  [columns |-> df.columns, rows |-> IF hi = <<>> THEN hi ELSE Tail(hi)]

\* Analyzer.filter_2020_data: four boolean-mask selections in a row; each
\* keeps the selected rows, their order and their index labels
filter_2020_data(df) ==
    LET y  == SelectSeq(df.rows, LAMBDA r : r.year = FilterYear)
        p  == SelectSeq(y, LAMBDA r : /\ FLess(Num(0), r.gdp_per_capita)
                                      /\ FLess(Num(0), r.life_expectancy))
        lo == SelectSeq(p, LAMBDA r : FLess(Num(LoBound), r.life_expectancy))
        hi == SelectSeq(lo, LAMBDA r : FLess(r.gdp_per_capita, Num(HiGdpBound)))
    IN  [columns |-> df.columns, rows |-> hi]

\* whether the gdp_per_capita column holds one value only
IsConstantGdp(rows) ==
    \A i, j \in 1..Len(rows) : rows[i].gdp_per_capita = rows[j].gdp_per_capita

\* whether the life_expectancy column holds one value only
IsConstantLife(rows) ==
    \A i, j \in 1..Len(rows) : rows[i].life_expectancy = rows[j].life_expectancy

\* a statistic whose value the model does not compute
Computed == [kind |-> "computed", m |-> 0, e |-> 0]

\* Analyzer.compute_pearson: scipy's pearsonr raises on fewer than two
\* observations and returns NaN for a constant column
compute_pearson(df) ==
    IF Len(df.rows) < 2 THEN Raise("ValueError")
    ELSE IF IsConstantGdp(df.rows) \/ IsConstantLife(df.rows)
         THEN Return([r |-> NaN, p |-> NaN])
         ELSE Return([r |-> Computed, p |-> Computed])

\* np.log10 on one float; the logarithm of a number that is no power of
\* ten is kept as the term log10(m * 10^e)
Log10(v) ==
    IF v.kind = "nan" THEN NaN
    ELSE IF v.kind = "inf" THEN (IF v.m > 0 THEN PosInf ELSE NaN)
    ELSE IF v.m < 0 THEN NaN
    ELSE IF v.m = 0 THEN NegInf
    ELSE IF v.m = 1 THEN Num(v.e)
    ELSE [kind |-> "log10", m |-> v.m, e |-> v.e]

\* df["log_gdp"] = np.log10(df["gdp_per_capita"]): the frame the caller
\* passed, with the column added (or overwritten) in place
WithLogGdp(df) ==
    [columns |-> IF \E k \in 1..Len(df.columns) : df.columns[k] = "log_gdp"
                 THEN df.columns ELSE Append(df.columns, "log_gdp"),
     rows    |-> [k \in 1..Len(df.rows) |->
                    [f \in (DOMAIN df.rows[k]) \cup {"log_gdp"} |->
                        IF f = "log_gdp" THEN Log10(df.rows[k].gdp_per_capita)
                        ELSE df.rows[k][f]]]]

\* sm.OLS(y, X).fit(): the fitted model, known by its regressor and the
\* number of observations
OLS(rows, regressor) == [exog |-> regressor, nobs |-> Len(rows)]

\* Analyzer.regression_log_gdp: the frame as the call leaves it, and the model
regression_log_gdp(df) ==
    LET after == WithLogGdp(df)
    IN  [df |-> after, model |-> OLS(after.rows, "log_gdp")]

\* Analyzer.trend_czech: the selected copy and the model fitted on it
trend_czech(df) ==
    LET cz == SelectSeq(df.rows, LAMBDA r : /\ r.country = TargetCountry
                                            /\ YearLo <= r.year
                                            /\ r.year <= YearHi)
    IN  [cz_df |-> [columns |-> df.columns, rows |-> cz],
         model |-> OLS(cz, "year")]

RECURSIVE InsertByYear(_, _)
InsertByYear(sorted, r) ==
    IF sorted = <<>> THEN <<r>>
    ELSE IF r.year < Head(sorted).year THEN <<r>> \o sorted
    ELSE <<Head(sorted)>> \o InsertByYear(Tail(sorted), r)

RECURSIVE SortByYear(_)
\* DataFrame.sort_values(by="year"), rows of one year in their given order
SortByYear(rows) ==
    IF rows = <<>> THEN <<>>
    ELSE InsertByYear(SortByYear(DropLast(rows)), rows[Len(rows)])

\* a - b on floats
FSub(a, b) ==
    IF a.kind = "nan" \/ b.kind = "nan" THEN NaN
    ELSE IF a.kind = "inf" THEN (IF b = a THEN NaN ELSE a)
    ELSE IF b.kind = "inf" THEN (IF b.m > 0 THEN NegInf ELSE PosInf)
    ELSE LET lo == IF a.e < b.e THEN a.e ELSE b.e
         IN  Norm(a.m * Pow10(a.e - lo) - b.m * Pow10(b.e - lo), lo)

\* le_vals[1:] - le_vals[:-1]
Diffs(le_vals) ==
    [k \in 1..(IF Len(le_vals) = 0 THEN 0 ELSE Len(le_vals) - 1) |->
        FSub(le_vals[k + 1], le_vals[k])]

\* stats.ttest_1samp(diffs, 0): NaN on fewer than two observations (the
\* sample variance is undefined), otherwise a statistic whose value the
\* model does not compute; it raises nothing
ttest_1samp(diffs) ==
    IF Len(diffs) < 2 THEN [t_stat |-> NaN, p_value |-> NaN]
    ELSE [t_stat |-> Computed, p_value |-> Computed]

\* Analyzer.paired_ttest_czech
paired_ttest_czech(df_cz) ==
    LET cz_sorted == SortByYear(df_cz.rows)
        le_vals   == [k \in 1..Len(cz_sorted) |-> cz_sorted[k].life_expectancy]
    IN  Return(ttest_1samp(Diffs(le_vals)))

(***************************************************************************)
(* Inputs.                                                                 *)
(***************************************************************************)
\* most rows of a wide table
MaxRows == 2

\* most rows of a long frame handed to merge_datasets directly
MaxLong == 3

\* most rows of a merged frame handed to the Analyzer directly
MaxMerged == 3

\* the characters of the raw GDP cells explored
Alphabet == {"0", "1", ".", ",", " ", "k", "K", "e", "-", "_", "i", "n", "f", "a"}

\* c is None / NaN, or a string of at most MaxLen characters
IsRawCell(c) ==
    \/ c = NULL
    \/ \E n \in 0..MaxLen : \E s \in [1..n -> Alphabet] : c = Str(s)

Countries == {"Czech Republic", "Czechia"}

L1999 == <<"1", "9", "9", "9">>

L2000 == <<"2", "0", "0", "0">>

L2020 == <<"2", "0", "2", "0">>

L2021 == <<"2", "0", "2", "1">>

\* a header that is no integer literal
LBad == <<"2", "0", "2", "0", ".", "5">>

\* w is a wide table of at most MaxRows rows with the given column labels
\* and cells
IsWideTable(w, labelSeqs, cellSet) ==
    \E n \in 1..MaxRows : \E cs \in [1..n -> Countries] : \E ls \in labelSeqs :
        \E c \in [1..n -> [1..Len(ls) -> cellSet]] :
            w = [countries |-> cs, labels |-> ls, cells |-> c]

\* the headers of the tables melted directly
MeltLabelSeqs == {<<L2000>>, <<L2000, L2020>>, <<L2020, L2000>>, <<L2000, LBad>>}

MeltLifeCells == {NaN, Num(70)}

MeltGdpCells ==
    {NULL, Str(<<"1", "k">>), Str(<<"a">>), Str(<<"1", ",", "0">>)}

\* the tables that accompany the table under study
SampleLifeTable ==
    [countries |-> <<"Czechia">>, labels |-> <<L2000, L2020>>,
     cells |-> <<(<<Num(75), NaN>>)>>]

SampleGdpTable ==
    [countries |-> <<"Czechia">>, labels |-> <<L2000, L2020>>,
     cells |-> <<(<<Str(<<"1", "5", "k">>), Str(<<"a">>)>>)>>]

\* df is a frame of at most n rows drawn from rowSet, with a RangeIndex
IsFrame(df, columns, rowSet, n) ==
    \E k \in 0..n : \E rs \in [1..k -> rowSet] :
        df = [columns |-> columns, rows |-> Reindex(rs)]

LongLifeRows ==
    {[idx |-> 0, country |-> c, year |-> y, life_expectancy |-> Num(70)] :
        c \in Countries, y \in {2000, 2020}}

LongGdpRows ==
    {[idx |-> 0, country |-> c, year |-> y, gdp_per_capita |-> Num(1000)] :
        c \in Countries, y \in {2000, 2020}}

\* merged rows around the year filter's five predicates
FilterRows ==
    {[idx |-> 0, country |-> "Czechia", year |-> y,
      life_expectancy |-> Num(le), gdp_per_capita |-> Num(g)] :
        y \in {2019, 2020}, le \in {0, 10, 11}, g \in {0, 1, 1000000}}

\* merged rows around the trend's country and year range
TrendRows ==
    {[idx |-> 0, country |-> c, year |-> y,
      life_expectancy |-> Num(le), gdp_per_capita |-> Num(1000)] :
        c \in Countries, y \in {1999, 2000, 2020, 2021}, le \in {70, 71}}

IsMergedFrame(df) ==
    \/ IsFrame(df, MergedColumns, FilterRows, MaxMerged)
    \/ IsFrame(df, MergedColumns, TrendRows, MaxMerged)

\* the files main() can find on disk
MainLabelSeqs == {<<L2020>>, <<L2000, L2020>>, <<L2020, L2000>>, <<L2020, LBad>>}

MainLifeCells == {NaN, Num(70)}

\* the GDP cell of row i in those files
MainGdpCell(i) ==
    IF i = 1 THEN Str(<<"2", "7", ".", "7", "k">>)
    ELSE IF i = 2 THEN Str(<<"5", "3", "8", "0">>)
    ELSE Str(<<"1", ",", "2", "3", "4">>)

IsMainGdpTable(w) ==
    \E n \in 1..MaxRows : \E cs \in [1..n -> Countries] : \E ls \in MainLabelSeqs :
        w = [countries |-> cs, labels |-> ls,
             cells |-> [i \in 1..n |-> [j \in 1..Len(ls) |-> MainGdpCell(i)]]]

(***************************************************************************)
(* main(): the calls in program order, and the component of each.          *)
(***************************************************************************)
\* main() with the GDP file loaded only after the life table is melted
MainOrder_LoadLate ==
    <<"load_life_expectancy", "melt_life_expectancy",
      "load_gdp_per_capita", "melt_gdp_per_capita", "merge_datasets",
      "filter_2020_data", "compute_pearson", "regression_log_gdp",
      "plot_scatter_log", "plot_regression_log",
      "trend_czech", "plot_czech_trend", "paired_ttest_czech">>

MainOrder ==
    <<"load_life_expectancy", "load_gdp_per_capita",
      "melt_life_expectancy", "melt_gdp_per_capita", "merge_datasets",
      "filter_2020_data", "compute_pearson", "regression_log_gdp",
      "plot_scatter_log", "plot_regression_log",
      "trend_czech", "plot_czech_trend", "paired_ttest_czech">>

\* the call main() makes after op returns
After(op) ==
    LET i == CHOOSE k \in 1..Len(MainOrder) : MainOrder[k] = op
    IN  IF i = Len(MainOrder) THEN "done" ELSE MainOrder[i + 1]

\* the class that defines each operation
StageOf(op) ==
    CASE op \in {"load_life_expectancy", "load_gdp_per_capita"} -> "Loader"
      [] op \in {"melt_life_expectancy", "melt_gdp_per_capita", "clean_gdp_cell",
                 "merge_datasets", "merge_datasets_swapped"} -> "Transformer"
      [] op \in {"filter_2020_data", "filter_2020_data_again", "compute_pearson",
                 "regression_log_gdp", "trend_czech",
                 "paired_ttest_czech"} -> "Analyzer"
      [] op \in {"plot_scatter_log", "plot_regression_log",
                 "plot_czech_trend"} -> "Visualizer"

Called(op) == \E k \in 1..Len(calls) : calls[k] = op

\* op is the call made last
LastCall(op) == calls # <<>> /\ calls[Len(calls)] = op

\* op is main()'s next call, or op is called directly, once, on inputs
\* that exist
Ready(op, inputsExist) ==
    \/ pc = op
    \/ pc = "unit" /\ inputsExist /\ ~Called(op)

\* an exception leaves main(); a direct call leaves the caller where it was
Advance(op) ==
    /\ calls' = Append(calls, op)
    /\ pc' = IF pc = "unit" THEN "unit"
             ELSE IF raised' = "none" THEN After(op) ELSE "failed"

(***************************************************************************)
(* The operations.                                                         *)
(***************************************************************************)
\* DataLoader.load_life_expectancy: the file's table, or the file is missing
LoadLifeExpectancy ==
    /\ Ready("load_life_expectancy", FALSE)
    /\ \/ /\ IsWideTable(life_raw', MainLabelSeqs, MainLifeCells)
          /\ raised' = "none"
       \/ /\ raised' = "FileNotFoundError"
          /\ UNCHANGED life_raw
    /\ Advance("load_life_expectancy")
    /\ UNCHANGED <<raw_cell, cleaned, gdp_raw, life_long, gdp_long, merged_df,
                   merged_swapped, df_2020_filtered, refiltered, pearson,
                   model_log, cz_df, trend_model, ttest, files>>

\* DataLoader.load_gdp_per_capita
LoadGdpPerCapita ==
    /\ Ready("load_gdp_per_capita", FALSE)
    /\ \/ /\ IsMainGdpTable(gdp_raw')
          /\ raised' = "none"
       \/ /\ raised' = "FileNotFoundError"
          /\ UNCHANGED gdp_raw
    /\ Advance("load_gdp_per_capita")
    /\ UNCHANGED <<raw_cell, cleaned, life_raw, life_long, gdp_long, merged_df,
                   merged_swapped, df_2020_filtered, refiltered, pearson,
                   model_log, cz_df, trend_model, ttest, files>>

\* a direct call of clean_gdp_cell on one raw cell
CleanGdpCell ==
    /\ Ready("clean_gdp_cell", raw_cell # Unset)
    /\ LET out == clean_gdp_cell(raw_cell)
       IN  IF out = ValueError
           THEN raised' = "ValueError" /\ UNCHANGED cleaned
           ELSE raised' = "none" /\ cleaned' = out
    /\ Advance("clean_gdp_cell")
    /\ UNCHANGED <<raw_cell, life_raw, gdp_raw, life_long, gdp_long, merged_df,
                   merged_swapped, df_2020_filtered, refiltered, pearson,
                   model_log, cz_df, trend_model, ttest, files>>

MeltLifeExpectancy ==
    /\ Ready("melt_life_expectancy", life_raw # Unset)
    /\ LET out == melt_life_expectancy(life_raw)
       IN  IF out.kind = "raise"
           THEN raised' = out.value /\ UNCHANGED life_long
           ELSE raised' = "none" /\ life_long' = out.value
    /\ Advance("melt_life_expectancy")
    /\ UNCHANGED <<raw_cell, cleaned, life_raw, gdp_raw, gdp_long, merged_df,
                   merged_swapped, df_2020_filtered, refiltered, pearson,
                   model_log, cz_df, trend_model, ttest, files>>

MeltGdpPerCapita ==
    /\ Ready("melt_gdp_per_capita", gdp_raw # Unset)
    /\ LET out == melt_gdp_per_capita(gdp_raw)
       IN  IF out.kind = "raise"
           THEN raised' = out.value /\ UNCHANGED gdp_long
           ELSE raised' = "none" /\ gdp_long' = out.value
    /\ Advance("melt_gdp_per_capita")
    /\ UNCHANGED <<raw_cell, cleaned, life_raw, gdp_raw, life_long, merged_df,
                   merged_swapped, df_2020_filtered, refiltered, pearson,
                   model_log, cz_df, trend_model, ttest, files>>

MergeDatasets ==
    /\ Ready("merge_datasets", life_long # Unset /\ gdp_long # Unset)
    /\ merged_df' = merge_datasets(life_long, gdp_long)
    /\ raised' = "none"
    /\ Advance("merge_datasets")
    /\ UNCHANGED <<raw_cell, cleaned, life_raw, gdp_raw, life_long, gdp_long,
                   merged_swapped, df_2020_filtered, refiltered, pearson,
                   model_log, cz_df, trend_model, ttest, files>>

\* a direct call with the arguments exchanged
MergeDatasetsSwapped ==
    /\ Ready("merge_datasets_swapped", life_long # Unset /\ gdp_long # Unset)
    /\ pc = "unit"
    /\ merged_swapped' = merge_datasets(gdp_long, life_long)
    /\ raised' = "none"
    /\ Advance("merge_datasets_swapped")
    /\ UNCHANGED <<raw_cell, cleaned, life_raw, gdp_raw, life_long, gdp_long,
                   merged_df, df_2020_filtered, refiltered, pearson,
                   model_log, cz_df, trend_model, ttest, files>>

Filter2020Data ==
    /\ Ready("filter_2020_data", merged_df # Unset)
    /\ df_2020_filtered' = filter_2020_data(merged_df)
    /\ raised' = "none"
    /\ Advance("filter_2020_data")
    /\ UNCHANGED <<raw_cell, cleaned, life_raw, gdp_raw, life_long, gdp_long,
                   merged_df, merged_swapped, refiltered, pearson,
                   model_log, cz_df, trend_model, ttest, files>>

\* a direct call on a slice that filter_2020_data returned
Filter2020DataAgain ==
    /\ Ready("filter_2020_data_again", df_2020_filtered # Unset)
    /\ pc = "unit"
    /\ refiltered' = filter_2020_data(df_2020_filtered)
    /\ raised' = "none"
    /\ Advance("filter_2020_data_again")
    /\ UNCHANGED <<raw_cell, cleaned, life_raw, gdp_raw, life_long, gdp_long,
                   merged_df, merged_swapped, df_2020_filtered, pearson,
                   model_log, cz_df, trend_model, ttest, files>>

ComputePearson ==
    /\ Ready("compute_pearson", df_2020_filtered # Unset)
    /\ LET out == compute_pearson(df_2020_filtered)
       IN  IF out.kind = "raise"
           THEN raised' = out.value /\ UNCHANGED pearson
           ELSE raised' = "none" /\ pearson' = out.value
    /\ Advance("compute_pearson")
    /\ UNCHANGED <<raw_cell, cleaned, life_raw, gdp_raw, life_long, gdp_long,
                   merged_df, merged_swapped, df_2020_filtered, refiltered,
                   model_log, cz_df, trend_model, ttest, files>>

\* the frame passed is the caller's object: the new column shows in it
RegressionLogGdp ==
    /\ Ready("regression_log_gdp", df_2020_filtered # Unset)
    /\ LET out == regression_log_gdp(df_2020_filtered)
       IN  /\ df_2020_filtered' = out.df
           /\ model_log' = out.model
    /\ raised' = "none"
    /\ Advance("regression_log_gdp")
    /\ UNCHANGED <<raw_cell, cleaned, life_raw, gdp_raw, life_long, gdp_long,
                   merged_df, merged_swapped, refiltered, pearson,
                   cz_df, trend_model, ttest, files>>

\* Visualizer.plot_scatter_log: reads the frame, writes one file
PlotScatterLog ==
    /\ Ready("plot_scatter_log", df_2020_filtered # Unset)
    /\ files' = files \cup {"scatter_2020.png"}
    /\ raised' = "none"
    /\ Advance("plot_scatter_log")
    /\ UNCHANGED <<raw_cell, cleaned, life_raw, gdp_raw, life_long, gdp_long,
                   merged_df, merged_swapped, df_2020_filtered, refiltered,
                   pearson, model_log, cz_df, trend_model, ttest>>

\* Visualizer.plot_regression_log
PlotRegressionLog ==
    /\ Ready("plot_regression_log", df_2020_filtered # Unset /\ model_log # Unset)
    /\ files' = files \cup {"regression_2020.png"}
    /\ raised' = "none"
    /\ Advance("plot_regression_log")
    /\ UNCHANGED <<raw_cell, cleaned, life_raw, gdp_raw, life_long, gdp_long,
                   merged_df, merged_swapped, df_2020_filtered, refiltered,
                   pearson, model_log, cz_df, trend_model, ttest>>

\* the fit on an empty selection: statsmodels may raise or return
TrendCzech ==
    /\ Ready("trend_czech", merged_df # Unset)
    /\ LET out == trend_czech(merged_df)
       IN  \/ /\ cz_df' = out.cz_df
              /\ trend_model' = out.model
              /\ raised' = "none"
           \/ /\ out.cz_df.rows = <<>>
              /\ raised' = "ValueError"
              /\ UNCHANGED <<cz_df, trend_model>>
    /\ Advance("trend_czech")
    /\ UNCHANGED <<raw_cell, cleaned, life_raw, gdp_raw, life_long, gdp_long,
                   merged_df, merged_swapped, df_2020_filtered, refiltered,
                   pearson, model_log, ttest, files>>

\* Visualizer.plot_czech_trend
PlotCzechTrend ==
    /\ Ready("plot_czech_trend", cz_df # Unset /\ trend_model # Unset)
    /\ files' = files \cup {"trend_czech.png"}
    /\ raised' = "none"
    /\ Advance("plot_czech_trend")
    /\ UNCHANGED <<raw_cell, cleaned, life_raw, gdp_raw, life_long, gdp_long,
                   merged_df, merged_swapped, df_2020_filtered, refiltered,
                   pearson, model_log, cz_df, trend_model, ttest>>

PairedTtestCzech ==
    /\ Ready("paired_ttest_czech", cz_df # Unset)
    /\ LET out == paired_ttest_czech(cz_df)
       IN  IF out.kind = "raise"
           THEN raised' = out.value /\ UNCHANGED ttest
           ELSE raised' = "none" /\ ttest' = out.value
    /\ Advance("paired_ttest_czech")
    /\ UNCHANGED <<raw_cell, cleaned, life_raw, gdp_raw, life_long, gdp_long,
                   merged_df, merged_swapped, df_2020_filtered, refiltered,
                   pearson, model_log, cz_df, trend_model, files>>

(***************************************************************************)
(* Specifications.                                                         *)
(***************************************************************************)
\* nothing loaded, nothing computed, nothing called
Blank ==
    /\ raw_cell = Unset /\ cleaned = Unset
    /\ life_raw = Unset /\ gdp_raw = Unset
    /\ life_long = Unset /\ gdp_long = Unset
    /\ merged_df = Unset /\ merged_swapped = Unset
    /\ df_2020_filtered = Unset /\ refiltered = Unset

NoResults ==
    /\ pearson = Unset /\ model_log = Unset
    /\ cz_df = Unset /\ trend_model = Unset /\ ttest = Unset
    /\ files = {} /\ raised = "none" /\ calls = <<>>

\* a run of main()
Init ==
    /\ Blank /\ NoResults
    /\ pc = MainOrder[1]

Next ==
    \/ LoadLifeExpectancy \/ LoadGdpPerCapita
    \/ MeltLifeExpectancy \/ MeltGdpPerCapita \/ MergeDatasets
    \/ Filter2020Data \/ ComputePearson \/ RegressionLogGdp
    \/ PlotScatterLog \/ PlotRegressionLog
    \/ TrendCzech \/ PlotCzechTrend \/ PairedTtestCzech

Spec == Init /\ [][Next]_vars

\* clean_gdp_cell called on every raw cell
InitCell ==
    /\ IsRawCell(raw_cell) /\ cleaned = Unset
    /\ life_raw = Unset /\ gdp_raw = Unset
    /\ life_long = Unset /\ gdp_long = Unset
    /\ merged_df = Unset /\ merged_swapped = Unset
    /\ df_2020_filtered = Unset /\ refiltered = Unset
    /\ NoResults
    /\ pc = "unit"

NextCell == CleanGdpCell

SpecCell == InitCell /\ [][NextCell]_vars

\* the two melts called on wide tables
InitMelt ==
    /\ raw_cell = Unset /\ cleaned = Unset
    /\ \/ /\ IsWideTable(life_raw, MeltLabelSeqs, MeltLifeCells)
          /\ gdp_raw = SampleGdpTable
       \/ /\ life_raw = SampleLifeTable
          /\ IsWideTable(gdp_raw, MeltLabelSeqs, MeltGdpCells)
    /\ life_long = Unset /\ gdp_long = Unset
    /\ merged_df = Unset /\ merged_swapped = Unset
    /\ df_2020_filtered = Unset /\ refiltered = Unset
    /\ NoResults
    /\ pc = "unit"

NextMelt == MeltLifeExpectancy \/ MeltGdpPerCapita

SpecMelt == InitMelt /\ [][NextMelt]_vars

\* merge_datasets called on long frames, both ways round
InitMerge ==
    /\ raw_cell = Unset /\ cleaned = Unset
    /\ life_raw = Unset /\ gdp_raw = Unset
    /\ IsFrame(life_long, LifeColumns, LongLifeRows, MaxLong)
    /\ IsFrame(gdp_long, GdpColumns, LongGdpRows, MaxLong)
    /\ merged_df = Unset /\ merged_swapped = Unset
    /\ df_2020_filtered = Unset /\ refiltered = Unset
    /\ NoResults
    /\ pc = "unit"

NextMerge == MergeDatasets \/ MergeDatasetsSwapped

SpecMerge == InitMerge /\ [][NextMerge]_vars

\* the Analyzer's filter, trend and t-test called on merged frames
InitAnalyze ==
    /\ raw_cell = Unset /\ cleaned = Unset
    /\ life_raw = Unset /\ gdp_raw = Unset
    /\ life_long = Unset /\ gdp_long = Unset
    /\ IsMergedFrame(merged_df) /\ merged_swapped = Unset
    /\ df_2020_filtered = Unset /\ refiltered = Unset
    /\ NoResults
    /\ pc = "unit"

NextAnalyze ==
    \/ Filter2020Data \/ Filter2020DataAgain
    \/ TrendCzech \/ PairedTtestCzech

SpecAnalyze == InitAnalyze /\ [][NextAnalyze]_vars

(***************************************************************************)
(* Properties.                                                             *)
(***************************************************************************)
\* the string handed to float() for the raw string s: the k-suffix branch
\* when the trimmed string ends with k or K, the plain branch otherwise
Remainder(s) ==
    LET t == Strip(s)
    IN  IF EndsWithK(t) THEN RemoveCommas(Strip(DropLast(t)))
        ELSE RemoveCommas(t)

\* C1: clean_gdp_cell is total. Called on an absent cell or on any string,
\* it raises nothing and returns a float or missing; whenever float()
\* rejects the remainder, on the k-suffix branch or on the plain branch, the
\* result is missing (so neither zero nor an exception).
C1_CleanTotal ==
    Called("clean_gdp_cell") =>
        /\ raised = "none"
        /\ IsFloat(cleaned)
        /\ raw_cell = NULL => cleaned = NaN
        /\ (raw_cell # NULL /\ PyFloat(Remainder(raw_cell.s)) = ValueError)
              => cleaned = NaN

\* a string on the k-suffix branch whose remainder float() rejects
C1_Witness ==
    /\ Called("clean_gdp_cell")
    /\ raw_cell # NULL
    /\ EndsWithK(Strip(raw_cell.s))
    /\ Len(raw_cell.s) >= 2
    /\ PyFloat(Remainder(raw_cell.s)) = ValueError
    /\ cleaned = NaN

\* a plain decimal number: an optional sign, then digits with at most one
\* decimal point and at least one digit
IsPlainDecimal(s) ==
    LET body == IF s # <<>> /\ s[1] \in {"-", "+"} THEN Tail(s) ELSE s
    IN  /\ \A i \in 1..Len(body) : body[i] \in Digits \cup {"."}
        /\ Cardinality({i \in 1..Len(body) : body[i] = "."}) <= 1
        /\ \E i \in 1..Len(body) : body[i] \in Digits

RECURSIVE DecimalDigits(_)
\* the integer spelled by the digits of s, the decimal point skipped
DecimalDigits(s) ==
    IF s = <<>> THEN 0
    ELSE IF s[Len(s)] \in Digits
         THEN 10 * DecimalDigits(DropLast(s)) + DigitVal(s[Len(s)])
         ELSE DecimalDigits(DropLast(s))

\* the value of a plain decimal number
DecimalValue(s) ==
    LET neg  == s[1] = "-"
        dot  == FirstIn(s, {"."})
        frac == IF dot = 0 THEN 0 ELSE Len(s) - dot
        mag  == DecimalDigits(s)
    IN  Norm(IF neg THEN 0 - mag ELSE mag, 0 - frac)

\* the reference value of a raw string when only plain decimal numbers parse
RefCleanDecimal(s) ==
    LET rem == Strip(Remainder(s))
    IN  IF ~IsPlainDecimal(rem) THEN NaN
        ELSE IF EndsWithK(Strip(s))
             THEN Norm(DecimalValue(rem).m, DecimalValue(rem).e + 3)
             ELSE DecimalValue(rem)

\* the reference value of a raw string when the remainder is parsed the way
\* float() parses
RefCleanFloat(s) ==
    LET f == PyFloat(Remainder(s))
    IN  IF f = ValueError THEN NaN
        ELSE IF EndsWithK(Strip(s)) /\ f.kind = "num" THEN Norm(f.m, f.e + 3)
        ELSE f

CellsAt(w, c, y, present(_)) ==
    {ij \in (1..NRows(w)) \X (1..NCols(w)) :
        /\ w.countries[ij[1]] = c
        /\ PyInt(w.labels[ij[2]]) = Num(y)
        /\ present(w.cells[ij[1]][ij[2]])}

PresentCells(w, present(_)) ==
    {ij \in (1..NRows(w)) \X (1..NCols(w)) : present(w.cells[ij[1]][ij[2]])}

RecordsAt(df, c, y) ==
    {k \in 1..Len(df.rows) : df.rows[k].country = c /\ df.rows[k].year = y}

ModelYears == {1999, 2000, 2020, 2021}

\* long frame df holds exactly one record per present cell of w
Lossless(w, df, present(_)) ==
    /\ Len(df.rows) = Cardinality(PresentCells(w, present))
    /\ \A c \in Countries, y \in ModelYears :
          Cardinality(RecordsAt(df, c, y)) = Cardinality(CellsAt(w, c, y, present))

\* C3 as stated: for both melts the long records correspond one to one to
\* the non-missing cells of the wide table.
C3_Original ==
    /\ life_long # Unset
          => Lossless(life_raw, life_long, LAMBDA v : ~IsMissing(v))
    /\ gdp_long # Unset
          => Lossless(gdp_raw, gdp_long, LAMBDA v : ~IsNaCell(v))

\* C3: melt_life_expectancy yields exactly one record, with the cell's
\* country and year, per non-missing cell and none for an absent cell;
\* melt_gdp_per_capita yields exactly one record per cell whose cleaned
\* value is not missing, and none for an absent or unparsable cell.
C3_MeltLossless ==
    /\ life_long # Unset
          => Lossless(life_raw, life_long, LAMBDA v : ~IsMissing(v))
    /\ gdp_long # Unset
          => Lossless(gdp_raw, gdp_long,
                      LAMBDA v : v # NULL /\ PyFloat(Remainder(v.s)) \notin {ValueError, NaN})

\* both melts returned; the GDP table had an absent cell, an unparsable
\* cell and a parsable one
C3_Witness ==
    /\ life_long # Unset /\ gdp_long # Unset
    /\ Len(life_long.rows) = 1
    /\ NRows(gdp_raw) = 2 /\ NCols(gdp_raw) = 2
    /\ \E ij \in (1..2) \X (1..2) : gdp_raw.cells[ij[1]][ij[2]] = NULL
    /\ \E ij \in (1..2) \X (1..2) : gdp_raw.cells[ij[1]][ij[2]] = Str(<<"a">>)
    /\ Len(gdp_long.rows) = 2

\* C4: the keys of merge_datasets(lifeLong, gdpLong) are the keys of
\* lifeLong intersected with the keys of gdpLong, and the merge with the
\* arguments exchanged has the same keys.
C4_MergeKeys ==
    /\ merged_df # Unset
          => Keys(merged_df) = Keys(life_long) \cap Keys(gdp_long)
    /\ (merged_df # Unset /\ merged_swapped # Unset)
          => Keys(merged_swapped) = Keys(merged_df)

\* both merges done; each side had a key the other lacked, and one was shared
C4_Witness ==
    /\ merged_df # Unset /\ merged_swapped # Unset
    /\ Keys(merged_df) # {}
    /\ Keys(life_long) \ Keys(gdp_long) # {}
    /\ Keys(gdp_long) \ Keys(life_long) # {}

\* the five predicates of the year filter on a merged row of whole numbers
KeepsAllFive(r) ==
    /\ r.year = 2020
    /\ IntOf(r.gdp_per_capita) > 0
    /\ IntOf(r.life_expectancy) > 0
    /\ IntOf(r.life_expectancy) > 10
    /\ IntOf(r.gdp_per_capita) < 1000000

C6_FilterIdempotent ==
    Called("filter_2020_data_again") => refiltered = df_2020_filtered

\* the first filtering dropped a record and kept two
C6_Witness ==
    /\ Called("filter_2020_data_again")
    /\ Len(refiltered.rows) = 2
    /\ Len(merged_df.rows) = 3

\* C7 as stated: given fewer than 3 records the paired test fails (an
\* exception leaves it) and returns no (t_stat, p_value).
C7_InsufficientData ==
    (LastCall("paired_ttest_czech") /\ Len(cz_df.rows) < 3) =>
        raised # "none" /\ ttest = Unset

RECURSIVE IsSortedByYear(_)
IsSortedByYear(rows) ==
    Len(rows) < 2 \/ (rows[1].year <= rows[2].year /\ IsSortedByYear(Tail(rows)))

\* C8 as stated: the frame the trend returns holds exactly the merged
\* records of the target country with year in [2000, 2020], sorted
\* ascending by year.
C8_TrendSorted ==
    cz_df # Unset =>
        /\ \A r \in {merged_df.rows[k] : k \in 1..Len(merged_df.rows)} :
              (r.country = "Czech Republic" /\ r.year >= 2000 /\ r.year <= 2020)
                 <=> \E k \in 1..Len(cz_df.rows) : cz_df.rows[k] = r
        /\ IsSortedByYear(cz_df.rows)

\* C9 as stated: no call changes a table that exists; every table stays as
\* the call that produced it left it.
C9_NoInputMutated ==
    [][/\ life_raw # Unset => life_raw' = life_raw
       /\ gdp_raw # Unset => gdp_raw' = gdp_raw
       /\ life_long # Unset => life_long' = life_long
       /\ gdp_long # Unset => gdp_long' = gdp_long
       /\ merged_df # Unset => merged_df' = merged_df
       /\ df_2020_filtered # Unset => df_2020_filtered' = df_2020_filtered
       /\ cz_df # Unset => cz_df' = cz_df]_vars

StageRank(stage) ==
    CASE stage = "Loader" -> 1 [] stage = "Transformer" -> 2
      [] stage = "Analyzer" -> 3 [] stage = "Visualizer" -> 4

CalledAfter(op, prior) ==
    \A j \in 1..Len(calls) :
        calls[j] = op => \E i \in 1..(j - 1) : calls[i] = prior

====
